---------------------------- MODULE Spec2Model ----------------------------
(***************************************************************************)
(* Model of dingtalksd.py: the StableDiffusionBot chat handler, its        *)
(* bounded task queue and the worker process that serves it.               *)
(*                                                                         *)
(* Two execution contexts run the code: "main" (the asyncio event loop     *)
(* that calls process() for every callback, one at a time since process()  *)
(* never awaits) and "worker" (the daemon process running                  *)
(* do_sd_process).  A context is cut into steps at the calls that block:   *)
(* Queue.put, Queue.get, the engine call, the upload and the post.         *)
(***************************************************************************)
EXTENDS Naturals, Sequences, FiniteSets

(***************************************************************************)
(* Bounds of the model.                                                    *)
(***************************************************************************)
\* callbacks delivered in a run of Spec
MaxEvents == 3
\* callbacks delivered in a run of FairSpec
MaxFairEvents == 2
\* callbacks delivered in a run of SpecLoad (enough to fill the queue)
MaxLoadEvents == 130
\* the engine returns between 0 and MaxImages images
MaxImages == 5
\* generation times from 0 to MaxElapse units of 0.0001 s in a run of SpecHarness
MaxElapse == 16
\* times the same completed task is delivered in a run of SpecHarness
MaxDeliveries == 2

(***************************************************************************)
(* Program constants.                                                      *)
(***************************************************************************)
\* multiprocessing.Queue(maxsize=128)
maxsize == 128
\* pipe(prompt, height=512, width=512, ...)
TileSize == 512
\* Image.new('RGB', (1024, 1024))
CanvasSize == 1024
\* num_images_per_prompt=4, len(images) < 4
FourImages == 4

Contexts == {"main", "worker"}

(***************************************************************************)
(* Inbound events.  A prompt is a sequence of characters.  An event is     *)
(* either well formed (ok) and carries a conversation and a text, or       *)
(* malformed.                                                              *)
(***************************************************************************)
Malformed == [ok |-> FALSE, conv |-> "", content |-> <<>>]
Events == {[ok |-> TRUE, conv |-> "c1", content |-> <<" ", "a", " ">>],
           [ok |-> TRUE, conv |-> "c2", content |-> <<"b">>],
           Malformed}
\* the generation times measured, in units of 0.0001 s
Elapses == {15}
\* the identifiers the platform gives to uploaded media
MediaRefs == {"m1", "m2"}
\* the events of a load run: one well-formed event kind
LoadEvents == {[ok |-> TRUE, conv |-> "c1", content |-> <<"b">>]}

(***************************************************************************)
(* str.strip()                                                             *)
(***************************************************************************)
IsSpace(c) == c \in {" ", "\t", "\n"}

RECURSIVE lstrip(_)
lstrip(s) == IF s # <<>> /\ IsSpace(Head(s)) THEN lstrip(Tail(s)) ELSE s

RECURSIVE rstrip(_)
rstrip(s) ==
    IF s # <<>> /\ IsSpace(s[Len(s)]) THEN rstrip(SubSeq(s, 1, Len(s) - 1)) ELSE s

strip(s) == rstrip(lstrip(s))

(***************************************************************************)
(* Python values.  None is the empty sequence; an optional value that is   *)
(* present is a one-element sequence.                                      *)
(***************************************************************************)
None == <<>>
Some(v) == <<v>>

\* truth value of options.subprocess: True, False or None (left unset)
SubprocessValues == {"True", "False", "None"}
Truthy(v) == v = "True"

NoMessage == [id |-> 0, conv |-> "", text |-> None]

\* ChatbotMessage.from_dict(callback.data): the outcomes the SDK can produce.
\* A well-formed event gives its message; a malformed one either makes
\* from_dict raise or gives a message whose text attribute is None.
from_dict(id, ev) ==
    IF ev.ok
    THEN {[raised |-> FALSE,
           msg |-> [id |-> id, conv |-> ev.conv, text |-> Some(ev.content)]]}
    ELSE {[raised |-> TRUE, msg |-> NoMessage],
          [raised |-> FALSE, msg |-> [id |-> id, conv |-> ev.conv, text |-> None]]}

(***************************************************************************)
(* Images.  The engine returns tiles; a tile records the prompt it was     *)
(* generated from and its index in generation order.  The merged image is  *)
(* the new canvas and the pastes made on it, in order.                     *)
(***************************************************************************)
Tile(prompt, i) == [prompt |-> prompt, index |-> i, size |-> TileSize]

\* pipe(prompt, height=512, width=512, num_images_per_prompt=4).images,
\* when the engine returns n images
pipe_images(prompt, n) == [i \in 1..n |-> Tile(prompt, i - 1)]

\* an image of side d that an engine returned for the prompt, the i-th
SizedTile(prompt, i, d) == [prompt |-> prompt, index |-> i, size |-> d]

\* the sides of the tiles an engine handed to txt2img_four may return
TileSizes == {256, 512, 768, 1024}

\* pixel (u, v) of a tile: every tile has its own marker at every position
TilePixel(tile, u, v) ==
    [black |-> FALSE, prompt |-> tile.prompt, index |-> tile.index, u |-> u, v |-> v]

\* Image.new('RGB', size): every pixel is black
Black == [black |-> TRUE, prompt |-> <<>>, index |-> 0, u |-> 0, v |-> 0]

\* Image.paste(im, (x0, y0)) copies im onto the box at (x0, y0), cut at the
\* border of the canvas: pixel (x, y) of the canvas is the pixel of the last
\* image pasted over it, black when none was
Covers(p, x, y) ==
    /\ p.at[1] <= x /\ x < p.at[1] + p.image.size
    /\ p.at[2] <= y /\ y < p.at[2] + p.image.size

Pixel(canvas, x, y) ==
    LET over == {k \in 1..Len(canvas.pastes) : Covers(canvas.pastes[k], x, y)}
    IN  IF over = {}
        THEN Black
        ELSE LET k == CHOOSE m \in over : \A o \in over : o <= m
                 p == canvas.pastes[k]
             IN  TilePixel(p.image, x - p.at[1], y - p.at[2])

\* txt2img_four pasting the second and third image at each other's place
txt2img_four_swapped(images) ==
    IF Len(images) < FourImages
    THEN None
    ELSE Some([size |-> CanvasSize,
               pastes |-> << [image |-> images[1], at |-> <<0, 0>>],
                             [image |-> images[2], at |-> <<0, TileSize>>],
                             [image |-> images[3], at |-> <<TileSize, 0>>],
                             [image |-> images[4], at |-> <<TileSize, TileSize>>] >>])

\* lines 139-150 of txt2img_four: None when fewer than four images came back
txt2img_four(images) ==
    IF Len(images) < FourImages
    THEN None
    ELSE Some([size |-> CanvasSize,
               pastes |-> << [image |-> images[1], at |-> <<0, 0>>],
                             [image |-> images[2], at |-> <<TileSize, 0>>],
                             [image |-> images[3], at |-> <<0, TileSize>>],
                             [image |-> images[4], at |-> <<TileSize, TileSize>>] >>])

\* lines 129-132 of txt2img_one
txt2img_one(images) == Some([size |-> TileSize,
                             pastes |-> << [image |-> images[1], at |-> <<0, 0>>] >>])

\* txt2img: dispatch on _enable_four_images
txt2img(enable_four_images, images) ==
    IF enable_four_images THEN txt2img_four(images) ELSE txt2img_one(images)

\* the dict built at lines 112-116
complete_task(image_content, incoming_message, elapse_seconds) ==
    [image |-> image_content,
     incoming_message |-> incoming_message,
     elapse_seconds |-> elapse_seconds]

NoTask == complete_task(None, NoMessage, 0)

\* round(elapse_seconds, 3): elapse is counted in units of 0.0001 s and the
\* result in units of 0.001 s, halves rounding to the even neighbour
round3(e) ==
    LET q == e \div 10
        r == e % 10
    IN  IF r > 5 \/ (r = 5 /\ q % 2 = 1) THEN q + 1 ELSE q

\* the body composed with the prompt as it came in
content_untrimmed(incoming_message, media_id, elapse_seconds) ==
    [prompt |-> incoming_message.text[1],
     image |-> media_id,
     cost |-> round3(elapse_seconds)]

\* the body composed at lines 174-185, posted to the message's conversation
content(incoming_message, media_id, elapse_seconds) ==
    [prompt |-> strip(incoming_message.text[1]),
     image |-> media_id,
     cost |-> round3(elapse_seconds)]


(***************************************************************************)
(* State.                                                                  *)
(***************************************************************************)
VARIABLES
    subprocess,          \* options.subprocess
    enable_four_images,  \* self._enable_four_images
    pipe,                \* per context: has self._pipe been constructed
    task_queue,          \* self._task_queue, oldest first
    pc,                  \* per context: the call the context is at
    local,               \* per context: incoming_message, complete_task, media_id
    nextId,              \* number of callbacks delivered so far
    hist,                \* history of the callbacks in DOMAIN hist (not program state)
    harness              \* a caller of txt2img_four and process_complete: its values

vars == <<subprocess, enable_four_images, pipe, task_queue, pc, local, nextId, hist,
          harness>>

NoLocal == [incoming_message |-> NoMessage, task |-> NoTask, media_id |-> None]

\* what is recorded about one callback and the request it carries
NoHistory ==
    [recv |-> FALSE, ev |-> Malformed,
     ack |-> "none",          \* "OK": process returned; "raised": it raised
     enq |-> 0,               \* times put on the task queue
     gen |-> 0,               \* calls of txt2img
     genOut |-> "none",       \* "raised", "short" (returned None) or "image"
     replyCalls |-> 0,        \* calls of reply_image
     uploads |-> 0,           \* calls of upload_to_dingtalk
     uploadOut |-> "none",    \* "raised" or "ok"
     uploaded |-> <<>>,       \* the image contents uploaded
     posts |-> 0,             \* calls of reply_markdown
     postOut |-> "none",      \* "raised" or "ok"
     sent |-> <<>>,           \* the posts made: conversation and body
     ctxs |-> {},             \* contexts that ran generation or delivery for it
     fullAtPut |-> FALSE,     \* the queue was full when Queue.put was called
     loadingAtPut |-> FALSE,  \* the worker was still building its engine at the put
     enqPos |-> 0,            \* its rank among the requests put on the queue
     genPos |-> 0,            \* its rank among the requests handed to txt2img
     postPos |-> 0]           \* its rank among the requests replied to

\* what a direct caller of txt2img_four and process_complete holds: the
\* message, the size of the tiles its engine returns, the images returned,
\* the completed task and the number of times it delivered it
NoHarness == [message |-> NoMessage, size |-> 0, images |-> None,
              task |-> NoTask, deliveries |-> 0]

Ids == DOMAIN hist

\* the next rank in the order of the enqueues, of the generations started, of
\* the replies posted
NextEnqPos == 1 + Cardinality({j \in DOMAIN hist : hist[j].enqPos > 0})
NextGenPos == 1 + Cardinality({j \in DOMAIN hist : hist[j].genPos > 0})
NextPostPos == 1 + Cardinality({j \in DOMAIN hist : hist[j].postPos > 0})
Tracked(id) == id \in DOMAIN hist
Offload == Truthy(subprocess)

TypeOK ==
    /\ subprocess \in SubprocessValues
    /\ enable_four_images \in BOOLEAN
    /\ pipe \in [Contexts -> BOOLEAN]
    /\ pc["main"] \in {"constructed", "idle", "put", "txt2img", "upload", "post"}
    /\ pc["worker"] \in {"none", "create_pipe", "get", "txt2img", "upload", "post", "dead"}
    /\ nextId \in Nat
    /\ \A i \in 1..Len(task_queue) : task_queue[i].id \in 1..nextId

(***************************************************************************)
(* __init__ (lines 63-74): the engine is built in the constructing         *)
(* context unless options.subprocess is truthy; the queue is empty.        *)
(* create_pipe is taken to return: a failure to build the engine ends the  *)
(* program before it serves anything.                                      *)
(***************************************************************************)
InitProgram ==
    /\ subprocess \in SubprocessValues
    /\ enable_four_images = TRUE
    /\ pipe = [main |-> ~Truthy(subprocess), worker |-> FALSE]
    /\ task_queue = <<>>
    /\ pc = [main |-> "constructed", worker |-> "none"]
    /\ local = [c \in Contexts |-> NoLocal]
    /\ nextId = 0

Init ==
    /\ InitProgram
    /\ hist = [i \in 1..MaxEvents |-> NoHistory]
    /\ harness = NoHarness

InitFair ==
    /\ InitProgram
    /\ hist = [i \in 1..MaxFairEvents |-> NoHistory]
    /\ harness = NoHarness

\* a load run keeps the history of the callbacks that can find the queue full
InitLoad ==
    /\ InitProgram
    /\ hist = [i \in (maxsize + 1)..MaxLoadEvents |-> NoHistory]
    /\ harness = NoHarness

(***************************************************************************)
(* How process_incoming_message ends in its caller.  The worker loop       *)
(* (lines 89-91) has no handler: a return goes back to Queue.get, an       *)
(* exception ends the process.  In process (lines 158-159) a return leads  *)
(* to `return AckMessage.STATUS_OK, 'OK'`, an exception leaves process     *)
(* without an acknowledgment; the event loop then serves the next callback.*)
(***************************************************************************)
AfterReturn(ctx) == IF ctx = "worker" THEN "get" ELSE "idle"
AfterRaise(ctx) == IF ctx = "worker" THEN "dead" ELSE "idle"
AckReturn(ctx, ack) == IF ctx = "main" THEN "OK" ELSE ack
AckRaise(ctx, ack) == IF ctx = "main" THEN "raised" ELSE ack

\* pre_start (lines 76-84): start the worker process in offload mode
pre_start ==
    /\ pc["main"] = "constructed"
    /\ pc' = [pc EXCEPT !["main"] = "idle",
                        !["worker"] = IF Truthy(subprocess) THEN "create_pipe" ELSE @]
    /\ UNCHANGED <<subprocess, enable_four_images, pipe, task_queue, local, nextId, hist, harness>>

\* do_sd_process, line 88: the worker builds its own engine
create_pipe ==
    /\ pc["worker"] = "create_pipe"
    /\ pipe' = [pipe EXCEPT !["worker"] = TRUE]
    /\ pc' = [pc EXCEPT !["worker"] = "get"]
    /\ UNCHANGED <<subprocess, enable_four_images, task_queue, local, nextId, hist, harness>>

\* process with the mode test of line 155 inverted
process_inverted(ev) ==
    /\ pc["main"] = "idle"
    /\ nextId' = nextId + 1
    /\ \E r \in from_dict(nextId + 1, ev) :
         IF r.raised
         THEN /\ hist' = IF Tracked(nextId + 1)
                         THEN [hist EXCEPT ![nextId + 1].recv = TRUE,
                                           ![nextId + 1].ev = ev,
                                           ![nextId + 1].ack = "raised"]
                         ELSE hist
              /\ UNCHANGED <<pc, local>>
         ELSE IF ~Truthy(subprocess)
         THEN /\ pc' = [pc EXCEPT !["main"] = "put"]
              /\ local' = [local EXCEPT !["main"].incoming_message = r.msg]
              /\ hist' = IF Tracked(nextId + 1)
                         THEN [hist EXCEPT ![nextId + 1].recv = TRUE,
                                           ![nextId + 1].ev = ev,
                                           ![nextId + 1].fullAtPut =
                                               (Len(task_queue) = maxsize)]
                         ELSE hist
         ELSE /\ pc' = [pc EXCEPT !["main"] = "txt2img"]
              /\ local' = [local EXCEPT !["main"].incoming_message = r.msg]
              /\ hist' = IF Tracked(nextId + 1)
                         THEN [hist EXCEPT ![nextId + 1].recv = TRUE,
                                           ![nextId + 1].ev = ev,
                                           ![nextId + 1].gen = @ + 1,
                                           ![nextId + 1].genPos = NextGenPos,
                                           ![nextId + 1].ctxs = @ \cup {"main"}]
                         ELSE hist
    /\ UNCHANGED <<subprocess, enable_four_images, pipe, task_queue, harness>>

\* process (lines 152-158) up to the call that blocks: Queue.put in offload
\* mode, txt2img inside process_incoming_message otherwise
process(ev) ==
    /\ pc["main"] = "idle"
    /\ nextId' = nextId + 1
    /\ \E r \in from_dict(nextId + 1, ev) :
         IF r.raised
         THEN /\ hist' = IF Tracked(nextId + 1)
                         THEN [hist EXCEPT ![nextId + 1].recv = TRUE,
                                           ![nextId + 1].ev = ev,
                                           ![nextId + 1].ack = "raised"]
                         ELSE hist
              /\ UNCHANGED <<pc, local>>
         ELSE IF Truthy(subprocess)
         THEN /\ pc' = [pc EXCEPT !["main"] = "put"]
              /\ local' = [local EXCEPT !["main"].incoming_message = r.msg]
              /\ hist' = IF Tracked(nextId + 1)
                         THEN [hist EXCEPT ![nextId + 1].recv = TRUE,
                                           ![nextId + 1].ev = ev,
                                           ![nextId + 1].fullAtPut =
                                               (Len(task_queue) = maxsize)]
                         ELSE hist
         ELSE /\ pc' = [pc EXCEPT !["main"] = "txt2img"]
              /\ local' = [local EXCEPT !["main"].incoming_message = r.msg]
              /\ hist' = IF Tracked(nextId + 1)
                         THEN [hist EXCEPT ![nextId + 1].recv = TRUE,
                                           ![nextId + 1].ev = ev,
                                           ![nextId + 1].gen = @ + 1,
                                           ![nextId + 1].genPos = NextGenPos,
                                           ![nextId + 1].ctxs = @ \cup {"main"}]
                         ELSE hist
    /\ UNCHANGED <<subprocess, enable_four_images, pipe, task_queue, harness>>

\* put on a queue that has no capacity
put_unbounded ==
    /\ pc["main"] = "put"
    /\ task_queue' = Append(task_queue, local["main"].incoming_message)
    /\ pc' = [pc EXCEPT !["main"] = "idle"]
    /\ local' = [local EXCEPT !["main"] = NoLocal]
    /\ hist' = LET id == local["main"].incoming_message.id
               IN  IF Tracked(id)
                   THEN [hist EXCEPT ![id].enq = @ + 1,
                                     ![id].ack = "OK"]
                   ELSE hist
    /\ UNCHANGED <<subprocess, enable_four_images, pipe, nextId, harness>>

\* put that does not wait: a request that finds the queue full is dropped
put_nowait ==
    /\ pc["main"] = "put"
    /\ task_queue' = IF Len(task_queue) < maxsize
                     THEN Append(task_queue, local["main"].incoming_message)
                     ELSE task_queue
    /\ pc' = [pc EXCEPT !["main"] = "idle"]
    /\ local' = [local EXCEPT !["main"] = NoLocal]
    /\ hist' = LET id == local["main"].incoming_message.id
               IN  IF Tracked(id)
                   THEN [hist EXCEPT ![id].enq = IF Len(task_queue) < maxsize
                                                 THEN @ + 1 ELSE @,
                                     ![id].ack = "OK"]
                   ELSE hist
    /\ UNCHANGED <<subprocess, enable_four_images, pipe, nextId, harness>>

\* process, lines 156 and 159: Queue.put returns once the queue has room,
\* then process returns the OK acknowledgment
put ==
    /\ pc["main"] = "put"
    /\ Len(task_queue) < maxsize
    /\ task_queue' = Append(task_queue, local["main"].incoming_message)
    /\ pc' = [pc EXCEPT !["main"] = "idle"]
    /\ local' = [local EXCEPT !["main"] = NoLocal]
    /\ hist' = LET id == local["main"].incoming_message.id
               IN  IF Tracked(id)
                   THEN [hist EXCEPT ![id].enq = @ + 1,
                                     ![id].enqPos = NextEnqPos,
                                     ![id].loadingAtPut = (pc["worker"] = "create_pipe"),
                                     ![id].ack = "OK"]
                   ELSE hist
    /\ UNCHANGED <<subprocess, enable_four_images, pipe, nextId, harness>>

\* a worker that takes the newest request of the queue
get_lifo ==
    /\ pc["worker"] = "get"
    /\ task_queue # <<>>
    /\ task_queue' = SubSeq(task_queue, 1, Len(task_queue) - 1)
    /\ local' = [local EXCEPT !["worker"].incoming_message = task_queue[Len(task_queue)]]
    /\ pc' = [pc EXCEPT !["worker"] = "txt2img"]
    /\ hist' = LET id == task_queue[Len(task_queue)].id
               IN  IF Tracked(id)
                   THEN [hist EXCEPT ![id].gen = @ + 1,
                                     ![id].genPos = NextGenPos,
                                     ![id].ctxs = @ \cup {"worker"}]
                   ELSE hist
    /\ UNCHANGED <<subprocess, enable_four_images, pipe, nextId, harness>>

\* a worker that takes the next request without waiting for the one in hand
get_eager ==
    /\ pc["worker"] \in {"get", "txt2img", "upload", "post"}
    /\ task_queue # <<>>
    /\ task_queue' = Tail(task_queue)
    /\ local' = [local EXCEPT !["worker"] =
                     [NoLocal EXCEPT !.incoming_message = Head(task_queue)]]
    /\ pc' = [pc EXCEPT !["worker"] = "txt2img"]
    /\ hist' = LET id == Head(task_queue).id
               IN  IF Tracked(id)
                   THEN [hist EXCEPT ![id].gen = @ + 1,
                                     ![id].genPos = NextGenPos,
                                     ![id].ctxs = @ \cup {"worker"}]
                   ELSE hist
    /\ UNCHANGED <<subprocess, enable_four_images, pipe, nextId, harness>>

\* do_sd_process, lines 90-91: Queue.get returns the oldest request and
\* process_incoming_message calls txt2img for it
get ==
    /\ pc["worker"] = "get"
    /\ task_queue # <<>>
    /\ task_queue' = Tail(task_queue)
    /\ local' = [local EXCEPT !["worker"].incoming_message = Head(task_queue)]
    /\ pc' = [pc EXCEPT !["worker"] = "txt2img"]
    /\ hist' = LET id == Head(task_queue).id
               IN  IF Tracked(id)
                   THEN [hist EXCEPT ![id].gen = @ + 1,
                                     ![id].genPos = NextGenPos,
                                     ![id].ctxs = @ \cup {"worker"}]
                   ELSE hist
    /\ UNCHANGED <<subprocess, enable_four_images, pipe, nextId, harness>>


(***************************************************************************)
(* process_incoming_message (lines 102-117), run by either context.        *)
(***************************************************************************)
\* txt2img raised and the handler lets the exception through
txt2img_raise_propagates(ctx) ==
    /\ pc[ctx] = "txt2img"
    /\ pc' = [pc EXCEPT ![ctx] = AfterRaise(ctx)]
    /\ local' = [local EXCEPT ![ctx] = NoLocal]
    /\ hist' = LET id == local[ctx].incoming_message.id
               IN  IF Tracked(id)
                   THEN [hist EXCEPT ![id].genOut = "raised",
                                     ![id].ack = AckRaise(ctx, @)]
                   ELSE hist
    /\ UNCHANGED <<subprocess, enable_four_images, pipe, task_queue, nextId, harness>>

\* txt2img raised and the handler puts the request back on the queue
txt2img_raise_retry(ctx) ==
    /\ pc[ctx] = "txt2img"
    /\ pc' = [pc EXCEPT ![ctx] = AfterReturn(ctx)]
    /\ local' = [local EXCEPT ![ctx] = NoLocal]
    /\ task_queue' = Append(task_queue, local[ctx].incoming_message)
    /\ hist' = LET id == local[ctx].incoming_message.id
               IN  IF Tracked(id)
                   THEN [hist EXCEPT ![id].genOut = "raised",
                                     ![id].enq = @ + 1,
                                     ![id].ack = AckReturn(ctx, @)]
                   ELSE hist
    /\ UNCHANGED <<subprocess, enable_four_images, pipe, nextId, harness>>

\* lines 108-110: txt2img raised (the engine failed, the engine was never
\* built, or the message has no text to strip); the error is logged and
\* process_incoming_message returns
txt2img_raise(ctx) ==
    /\ pc[ctx] = "txt2img"
    /\ pc' = [pc EXCEPT ![ctx] = AfterReturn(ctx)]
    /\ local' = [local EXCEPT ![ctx] = NoLocal]
    /\ hist' = LET id == local[ctx].incoming_message.id
               IN  IF Tracked(id)
                   THEN [hist EXCEPT ![id].genOut = "raised",
                                     ![id].ack = AckReturn(ctx, @)]
                   ELSE hist
    /\ UNCHANGED <<subprocess, enable_four_images, pipe, task_queue, nextId, harness>>

\* process_complete with the test of line 162 inverted
process_complete_inverted(ctx, task) ==
    IF DOMAIN task # {}
    THEN /\ pc' = [pc EXCEPT ![ctx] = AfterReturn(ctx)]
         /\ local' = [local EXCEPT ![ctx] = NoLocal]
         /\ hist' = LET id == local[ctx].incoming_message.id
                    IN  IF Tracked(id)
                        THEN [hist EXCEPT ![id].genOut =
                                              IF task.image = None THEN "short" ELSE "image",
                                          ![id].ack = AckReturn(ctx, @)]
                        ELSE hist
    ELSE /\ pc' = [pc EXCEPT ![ctx] = "upload"]
         /\ local' = [local EXCEPT ![ctx].task = task,
                                   ![ctx].incoming_message = task.incoming_message]
         /\ hist' = LET id == task.incoming_message.id
                    IN  IF Tracked(id)
                        THEN [hist EXCEPT ![id].genOut =
                                              IF task.image = None THEN "short" ELSE "image",
                                          ![id].replyCalls = @ + 1,
                                          ![id].uploads = @ + 1,
                                          ![id].uploaded = Append(@, task.image),
                                          ![id].ctxs = @ \cup {ctx}]
                        ELSE hist

\* process_complete (lines 161-167) up to the upload call inside reply_image
\* (line 171); an empty dict would make it return at once
process_complete(ctx, task) ==
    IF DOMAIN task = {}
    THEN /\ pc' = [pc EXCEPT ![ctx] = AfterReturn(ctx)]
         /\ local' = [local EXCEPT ![ctx] = NoLocal]
         /\ hist' = LET id == local[ctx].incoming_message.id
                    IN  IF Tracked(id)
                        THEN [hist EXCEPT ![id].genOut =
                                              IF task.image = None THEN "short" ELSE "image",
                                          ![id].ack = AckReturn(ctx, @)]
                        ELSE hist
    ELSE /\ pc' = [pc EXCEPT ![ctx] = "upload"]
         /\ local' = [local EXCEPT ![ctx].task = task,
                                   ![ctx].incoming_message = task.incoming_message]
         /\ hist' = LET id == task.incoming_message.id
                    IN  IF Tracked(id)
                        THEN [hist EXCEPT ![id].genOut =
                                              IF task.image = None THEN "short" ELSE "image",
                                          ![id].replyCalls = @ + 1,
                                          ![id].uploads = @ + 1,
                                          ![id].uploaded = Append(@, task.image),
                                          ![id].ctxs = @ \cup {ctx}]
                        ELSE hist

\* lines 105-107 and 112-117: txt2img returned, with n images from the
\* engine and el measured; the task is built and handed to process_complete
txt2img_return(ctx, n, el) ==
    /\ pc[ctx] = "txt2img"
    /\ pipe[ctx]
    /\ local[ctx].incoming_message.text # None
    /\ enable_four_images \/ n >= 1
    /\ LET incoming_message == local[ctx].incoming_message
           prompt == strip(incoming_message.text[1])
           image_content == txt2img(enable_four_images, pipe_images(prompt, n))
       IN  process_complete(ctx, complete_task(image_content, incoming_message, el))
    /\ UNCHANGED <<subprocess, enable_four_images, pipe, task_queue, nextId, harness>>

(***************************************************************************)
(* reply_image (lines 170-186).  upload_to_dingtalk and reply_markdown     *)
(* belong to the SDK: each either returns or raises.                       *)
(***************************************************************************)
\* the media reference the platform gives for an uploaded content: an opaque
\* identifier the platform chooses, which stands for the content uploaded
media_of(ref, image_content) == Some([ref |-> ref, media |-> image_content])

\* line 171 raised and the upload is tried again
upload_raise_retry(ctx) ==
    /\ pc[ctx] = "upload"
    /\ hist[local[ctx].incoming_message.id].uploads < 3
    /\ hist' = LET id == local[ctx].incoming_message.id
               IN  [hist EXCEPT ![id].uploads = @ + 1,
                                ![id].uploaded = Append(@, local[ctx].task.image)]
    /\ UNCHANGED <<subprocess, enable_four_images, pipe, task_queue, nextId, pc, local, harness>>

\* line 171 raised: nothing catches it up to the caller of
\* process_incoming_message
upload_raise(ctx) ==
    /\ pc[ctx] = "upload"
    /\ pc' = [pc EXCEPT ![ctx] = AfterRaise(ctx)]
    /\ local' = [local EXCEPT ![ctx] = NoLocal]
    /\ hist' = LET id == local[ctx].incoming_message.id
               IN  IF Tracked(id)
                   THEN [hist EXCEPT ![id].uploadOut = "raised",
                                     ![id].ack = AckRaise(ctx, @)]
                   ELSE hist
    /\ UNCHANGED <<subprocess, enable_four_images, pipe, task_queue, nextId, harness>>

\* lines 171-186: the upload returned a media reference; the body is
\* composed and reply_markdown is called
upload_return(ctx, ref) ==
    /\ pc[ctx] = "upload"
    /\ pc' = [pc EXCEPT ![ctx] = "post"]
    /\ LET task == local[ctx].task
           media_id == media_of(ref, task.image)
       IN  /\ local' = [local EXCEPT ![ctx].media_id = media_id]
           /\ hist' = LET id == local[ctx].incoming_message.id
                      IN  IF Tracked(id)
                          THEN [hist EXCEPT
                                  ![id].uploadOut = "ok",
                                  ![id].posts = @ + 1,
                                  ![id].postPos = NextPostPos,
                                  ![id].sent = Append(@,
                                      [conv |-> task.incoming_message.conv,
                                       body |-> content(task.incoming_message, media_id,
                                                        task.elapse_seconds)])]
                          ELSE hist
    /\ UNCHANGED <<subprocess, enable_four_images, pipe, task_queue, nextId, harness>>

\* line 186 raised
post_raise(ctx) ==
    /\ pc[ctx] = "post"
    /\ pc' = [pc EXCEPT ![ctx] = AfterRaise(ctx)]
    /\ local' = [local EXCEPT ![ctx] = NoLocal]
    /\ hist' = LET id == local[ctx].incoming_message.id
               IN  IF Tracked(id)
                   THEN [hist EXCEPT ![id].postOut = "raised",
                                     ![id].ack = AckRaise(ctx, @)]
                   ELSE hist
    /\ UNCHANGED <<subprocess, enable_four_images, pipe, task_queue, nextId, harness>>

\* line 186 returned; process_complete logs the response (line 168) and
\* process_incoming_message returns
post_return(ctx) ==
    /\ pc[ctx] = "post"
    /\ pc' = [pc EXCEPT ![ctx] = AfterReturn(ctx)]
    /\ local' = [local EXCEPT ![ctx] = NoLocal]
    /\ hist' = LET id == local[ctx].incoming_message.id
               IN  IF Tracked(id)
                   THEN [hist EXCEPT ![id].postOut = "ok",
                                     ![id].ack = AckReturn(ctx, @)]
                   ELSE hist
    /\ UNCHANGED <<subprocess, enable_four_images, pipe, task_queue, nextId, harness>>

(***************************************************************************)
(* A direct caller of the bot's methods: it calls txt2img_four with an     *)
(* engine of its own, keeps the completed task and hands it to             *)
(* process_complete, more than once.                                       *)
(***************************************************************************)
\* the bot is constructed in inline mode and not started; the caller holds a
\* well-formed message and an engine returning tiles of one size
InitHarness ==
    /\ subprocess = "False"
    /\ enable_four_images = TRUE
    /\ pipe = [main |-> TRUE, worker |-> FALSE]
    /\ task_queue = <<>>
    /\ pc = [main |-> "idle", worker |-> "none"]
    /\ local = [c \in Contexts |-> NoLocal]
    /\ nextId = 1
    /\ \E ev \in {e \in Events : e.ok}, d \in TileSizes :
          /\ hist = [i \in 1..1 |-> [NoHistory EXCEPT !.recv = TRUE, !.ev = ev]]
          /\ harness = [NoHarness EXCEPT
                           !.message = [id |-> 1, conv |-> ev.conv,
                                        text |-> Some(ev.content)],
                           !.size = d]

\* lines 136-138 of txt2img_four: the engine is called with the trimmed
\* prompt and returns n images
harness_pipe(n) ==
    /\ harness.images = None
    /\ harness.task = NoTask
    /\ harness' = [harness EXCEPT !.images =
                      Some([i \in 1..n |->
                              SizedTile(strip(harness.message.text[1]), i - 1,
                                        harness.size)])]
    /\ UNCHANGED <<subprocess, enable_four_images, pipe, task_queue, pc, local,
                   nextId, hist>>

\* lines 139-150 of txt2img_four, and the task of lines 112-116 built on
\* its result with el measured
harness_txt2img(el) ==
    /\ harness.images # None
    /\ harness.task = NoTask
    /\ harness' = [harness EXCEPT !.task =
                      complete_task(txt2img_four(harness.images[1]),
                                    harness.message, el)]
    /\ UNCHANGED <<subprocess, enable_four_images, pipe, task_queue, pc, local,
                   nextId, hist>>

\* process_complete (lines 161-168) called with the task the caller holds
harness_deliver ==
    /\ pc["main"] = "idle"
    /\ harness.task # NoTask
    /\ harness.deliveries < MaxDeliveries
    /\ process_complete("main", harness.task)
    /\ harness' = [harness EXCEPT !.deliveries = @ + 1]
    /\ UNCHANGED <<subprocess, enable_four_images, pipe, task_queue, nextId>>

(***************************************************************************)
(* Specifications.                                                         *)
(***************************************************************************)
\* the steps of the worker process
WorkerNext ==
    \/ create_pipe
    \/ get
    \/ txt2img_raise("worker")
    \/ \E n \in 0..MaxImages, el \in Elapses : txt2img_return("worker", n, el)
    \/ upload_raise("worker")
    \/ \E ref \in MediaRefs : upload_return("worker", ref)
    \/ post_raise("worker")
    \/ post_return("worker")

\* the steps of the ingestion context after a callback came in
MainNext ==
    \/ pre_start
    \/ put
    \/ txt2img_raise("main")
    \/ \E n \in 0..MaxImages, el \in Elapses : txt2img_return("main", n, el)
    \/ upload_raise("main")
    \/ \E ref \in MediaRefs : upload_return("main", ref)
    \/ post_raise("main")
    \/ post_return("main")

Callback == \E ev \in Events : nextId < MaxEvents /\ process(ev)
CallbackFair == \E ev \in Events : nextId < MaxFairEvents /\ process(ev)
CallbackLoad == \E ev \in LoadEvents : nextId < MaxLoadEvents /\ process(ev)

Next == Callback \/ MainNext \/ WorkerNext
NextFair == CallbackFair \/ MainNext \/ WorkerNext
NextLoad == CallbackLoad \/ MainNext \/ WorkerNext

Spec == Init /\ [][Next]_vars

\* the worker process is scheduled, and every call it makes ends
FairSpec == InitFair /\ [][NextFair]_vars /\ WF_vars(WorkerNext)

SpecLoad == InitLoad /\ [][NextLoad]_vars

\* the steps of a direct caller and of the deliveries it starts
NextHarness ==
    \/ \E n \in 0..MaxImages : harness_pipe(n)
    \/ \E el \in 0..MaxElapse : harness_txt2img(el)
    \/ harness_deliver
    \/ upload_raise("main")
    \/ \E ref \in MediaRefs : upload_return("main", ref)
    \/ post_raise("main")
    \/ post_return("main")

SpecHarness == InitHarness /\ [][NextHarness]_vars


(***************************************************************************)
(* Properties.                                                             *)
(***************************************************************************)
QueueIds == {task_queue[i].id : i \in 1..Len(task_queue)}

\* a context is working on request id
InHand(id) ==
    \E ctx \in Contexts :
        /\ pc[ctx] \in {"put", "txt2img", "upload", "post"}
        /\ local[ctx].incoming_message.id = id

\* request id came in and the program is through with it
Finished(id) == hist[id].recv /\ id \notin QueueIds /\ ~InHand(id)

\* C1 as stated: every request whose generation returned an image and whose
\* handling is over got exactly one reply_image call and exactly one post,
\* and the post carries the request's own trimmed prompt.
C1_ExactlyOneReplyPosted ==
    \A id \in Ids :
        (hist[id].genOut = "image" /\ Finished(id)) =>
            /\ hist[id].replyCalls = 1
            /\ hist[id].posts = 1
            /\ hist[id].sent[1].body.prompt = strip(hist[id].ev.content)

\* C1 amended: a request whose generation returned an image gets exactly one
\* reply_image call (one upload attempt) referencing its own prompt; that
\* call makes exactly one post when its upload returns and none when its
\* upload raises; no request ever gets two reply_image calls or two posts.
C1_ExactlyOneReplyCall ==
    \A id \in Ids :
        /\ hist[id].replyCalls <= 1
        /\ hist[id].posts <= 1
        /\ hist[id].genOut = "image" =>
              /\ hist[id].replyCalls = 1
              /\ hist[id].uploads = 1
              /\ hist[id].uploadOut = "ok" => hist[id].posts = 1
              /\ hist[id].uploadOut = "raised" => hist[id].posts = 0
              /\ \A i \in 1..Len(hist[id].sent) :
                    hist[id].sent[i].body.prompt = strip(hist[id].ev.content)

C1_Witness ==
    \E id \in Ids :
        /\ hist[id].genOut = "image"
        /\ Finished(id)
        /\ hist[id].posts = 1
        /\ hist[id].postOut = "ok"

\* request id reached an end: a reply was posted, or a failure was reported
\* (generation raised or returned no image, the upload or the post raised)
Terminal(id) ==
    \/ hist[id].postOut = "ok"
    \/ hist[id].genOut \in {"raised", "short"}
    \/ hist[id].uploadOut = "raised"
    \/ hist[id].postOut = "raised"

\* C2 as stated: under a fair worker whose calls all end, every request put
\* on the task queue eventually reaches a terminal outcome.
C2_EveryEnqueuedRequestEnds ==
    \A id \in 1..MaxFairEvents : (hist[id].enq > 0) ~> Terminal(id)

\* the generation of request a raised in the worker, and a is the last
\* request the worker took
WorkerFailedLast(a) ==
    /\ hist[a].genOut = "raised"
    /\ "worker" \in hist[a].ctxs
    /\ \A c \in Ids : c > a => hist[c].gen = 0

\* C3: after the generation of request A raised in the worker, the worker is
\* back at its dequeue, and the request B that is next in the queue is
\* dequeued and has its generation attempted.
C3_IsolationOfGenerationFailure ==
    /\ [](\A a \in 1..MaxFairEvents : WorkerFailedLast(a) => pc["worker"] = "get")
    /\ \A a \in 1..MaxFairEvents, b \in 1..MaxFairEvents :
          (WorkerFailedLast(a) /\ task_queue # <<>> /\ Head(task_queue).id = b)
              ~> (hist[b].gen > 0)

C3_Witness ==
    \E a \in Ids, b \in Ids :
        /\ a < b
        /\ hist[a].genOut = "raised"
        /\ "worker" \in hist[a].ctxs
        /\ "worker" \in hist[b].ctxs
        /\ hist[b].gen = 1

\* C4 as stated: after an upload or a post raised in the worker, the worker
\* is still in its loop.
C4_DeliveryFailureNotFatal ==
    \A id \in Ids :
        ("worker" \in hist[id].ctxs
         /\ (hist[id].uploadOut = "raised" \/ hist[id].postOut = "raised"))
            => pc["worker"] \in {"get", "txt2img", "upload", "post"}

\* C5 as stated: a request for which the engine returned fewer than four
\* images gets no reply_image call, no upload and no post.
C5_ShortGridIsAFailure ==
    \A id \in Ids :
        hist[id].genOut = "short" =>
            /\ hist[id].replyCalls = 0
            /\ hist[id].uploads = 0
            /\ hist[id].posts = 0

\* C6: a request whose generation raised is dropped: it is on the queue at
\* most once in its life and not any more, generation was attempted for it
\* once, and nothing is uploaded or posted for it.
C6_FailedGenerationIsDropped ==
    \A id \in Ids :
        /\ hist[id].gen <= 1
        /\ hist[id].enq <= 1
        /\ hist[id].genOut = "raised" =>
              /\ hist[id].gen = 1
              /\ Finished(id)
              /\ hist[id].replyCalls = 0
              /\ hist[id].uploads = 0
              /\ hist[id].posts = 0

C6_Witness ==
    \E id \in Ids :
        /\ hist[id].ev.ok
        /\ hist[id].genOut = "raised"
        /\ hist[id].enq = 1
        /\ pc["worker"] = "get"

\* C7: the task queue never holds more than maxsize requests.
C7_QueueBound == Len(task_queue) <= maxsize

C7_Witness == Len(task_queue) = maxsize

\* a step of a callback that is at Queue.put: it either stays there with its
\* request, or the queue had room, the request is appended and process
\* returns
C8_Step ==
    pc["main"] = "put" =>
        \/ /\ pc'["main"] = "put"
           /\ local'["main"] = local["main"]
           /\ \/ task_queue' = task_queue
              \/ task_queue # <<>> /\ task_queue' = Tail(task_queue)
        \/ /\ Len(task_queue) < maxsize
           /\ task_queue' = Append(task_queue, local["main"].incoming_message)
           /\ pc'["main"] = "idle"

C8_State ==
    /\ \A id \in Ids :
          /\ (pc["main"] = "put" /\ local["main"].incoming_message.id = id) =>
                (hist[id].ack = "none" /\ hist[id].enq = 0)
          /\ (Offload /\ hist[id].ack = "OK") =>
                (hist[id].enq = 1 /\ (id \in QueueIds \/ hist[id].gen = 1))
    /\ (pc["main"] = "put" /\ Len(task_queue) < maxsize) => ENABLED put

\* C8: a callback that finds the queue full waits at Queue.put, unacknowledged
\* and holding its request; as soon as the queue has room the put can go
\* through, and when it does the request is on the queue and the callback
\* returns OK.  No acknowledged request is missing from the queue.
C8_BlockingAtCapacity == [][C8_Step]_vars /\ []C8_State

C8_Witness ==
    \E id \in Ids :
        /\ hist[id].fullAtPut
        /\ hist[id].ack = "OK"
        /\ hist[id].enq = 1

\* C9 as stated: a malformed event is acknowledged by the callback and
\* never reaches the task queue nor the generation step.
C9_MalformedAcknowledgedAndDropped ==
    \A id \in Ids :
        (hist[id].recv /\ ~hist[id].ev.ok) =>
            /\ hist[id].ack # "raised"
            /\ hist[id].enq = 0
            /\ hist[id].gen = 0

\* C10: in offload mode the ingestion context is never inside generation or
\* delivery and never ran them for any request; an OK acknowledgment means
\* the request was enqueued, nothing more; and a callback at Queue.put with
\* room in the queue can return whatever the worker is doing.
C10_IngestionOnlyEnqueues ==
    Offload =>
        /\ pc["main"] \in {"constructed", "idle", "put"}
        /\ \A id \in Ids :
              /\ "main" \notin hist[id].ctxs
              /\ hist[id].ack = "OK" => hist[id].enq = 1
        /\ \A w \in {"create_pipe", "get", "txt2img", "upload", "post", "dead"} :
              (pc["worker"] = w /\ pc["main"] = "put" /\ Len(task_queue) < maxsize)
                  => ENABLED put

\* a request acknowledged while the worker is still loading the model
C10_Witness ==
    \E id \in Ids :
        /\ hist[id].ack = "OK"
        /\ hist[id].gen = 0
        /\ pc["worker"] = "create_pipe"

\* C11: in inline mode nothing is ever put on the task queue, a request the
\* ingestion context is still generating or delivering is not acknowledged,
\* and an OK acknowledgment means that the generation of that request ended
\* (with an image, with None, or with a caught error) and, when it returned
\* an image, that its reply was posted.
C11_InlineAckAfterGeneration ==
    ~Offload =>
        /\ task_queue = <<>>
        /\ pc["main"] # "put"
        /\ \A id \in Ids :
              /\ hist[id].enq = 0
              /\ InHand(id) => hist[id].ack = "none"
              /\ hist[id].ack = "OK" =>
                    /\ hist[id].gen = 1
                    /\ hist[id].genOut \in {"raised", "short", "image"}
                    /\ hist[id].genOut = "image" =>
                          (hist[id].posts = 1 /\ hist[id].postOut = "ok")
                    /\ Finished(id)

C11_Witness ==
    /\ ~Offload
    /\ \E id \in Ids :
          /\ hist[id].ack = "OK"
          /\ hist[id].genOut = "image"
          /\ hist[id].postOut = "ok"

\* the worker took request id and is not through with it
WorkerInFlight(id) ==
    /\ "worker" \in hist[id].ctxs
    /\ hist[id].genOut # "raised"
    /\ hist[id].uploadOut # "raised"
    /\ hist[id].postOut = "none"

\* C14: the worker has at most one request in flight, the one held by its
\* loop, and every request it took earlier has ended (generation raised,
\* upload raised, or post returned or raised) before it took the next one.
C14_WorkerIsSerial ==
    /\ Cardinality({id \in Ids : WorkerInFlight(id)}) <= 1
    /\ \A id \in Ids :
          WorkerInFlight(id) =>
              /\ pc["worker"] \in {"txt2img", "upload", "post"}
              /\ local["worker"].incoming_message.id = id
    /\ \A a \in Ids, b \in Ids :
          ("worker" \in hist[a].ctxs /\ "worker" \in hist[b].ctxs
           /\ hist[a].genPos < hist[b].genPos) => ~WorkerInFlight(a)

C14_Witness ==
    \E a \in Ids, b \in Ids :
        /\ "worker" \in hist[a].ctxs
        /\ hist[a].postOut = "ok"
        /\ WorkerInFlight(b)
        /\ pc["worker"] = "upload"
        /\ task_queue # <<>>

\* C15: of two requests put on the queue, the one put first is the one handed
\* to txt2img first, and when both are replied to, the one put first is
\* replied to first.
C15_Fifo ==
    \A a \in Ids, b \in Ids :
        (hist[a].enqPos > 0 /\ hist[a].enqPos < hist[b].enqPos) =>
            /\ hist[b].genPos > 0 =>
                  (hist[a].genPos > 0 /\ hist[a].genPos < hist[b].genPos)
            /\ (hist[a].postPos > 0 /\ hist[b].postPos > 0) =>
                  hist[a].postPos < hist[b].postPos

C15_Witness ==
    \E a \in Ids, b \in Ids :
        /\ hist[a].enqPos = 1
        /\ hist[b].enqPos = 2
        /\ hist[a].genPos = 1
        /\ hist[b].genPos = 2
        /\ hist[a].postPos = 1
        /\ hist[b].postPos = 2

\* C16 as stated: every reply posted for a request goes to that request's
\* conversation, carries that request's trimmed prompt, and refers to an
\* image made of tiles generated from that request's trimmed prompt.
C16_NoCrossWiring ==
    \A id \in Ids :
        \A i \in 1..Len(hist[id].sent) :
            LET reply == hist[id].sent[i]
                prompt == strip(hist[id].ev.content)
            IN  /\ reply.conv = hist[id].ev.conv
                /\ reply.body.prompt = prompt
                /\ reply.body.image # None
                /\ reply.body.image[1].media # None
                /\ \A k \in 1..Len(reply.body.image[1].media[1].pastes) :
                      reply.body.image[1].media[1].pastes[k].image.prompt = prompt

\* C17: for every request the upload is called at most once and the post at
\* most once; a post is made only after the upload of that request's image
\* returned and refers to what that upload returned for it; after an upload
\* or a post raised, the request is dropped without another attempt.
C17_SingleAttemptUploadThenPost ==
    \A id \in Ids :
        /\ hist[id].uploads <= 1
        /\ hist[id].posts <= 1
        /\ Len(hist[id].uploaded) = hist[id].uploads
        /\ hist[id].posts = 1 =>
              /\ hist[id].uploads = 1
              /\ hist[id].uploadOut = "ok"
              /\ hist[id].sent[1].body.image[1].media = hist[id].uploaded[1]
        /\ hist[id].uploadOut = "raised" => (hist[id].posts = 0 /\ ~InHand(id))
        /\ hist[id].postOut = "raised" => ~InHand(id)

C17_Witness ==
    \E id \in Ids :
        /\ hist[id].uploads = 1
        /\ hist[id].uploadOut = "ok"
        /\ hist[id].posts = 1
        /\ hist[id].postOut = "raised"

WorkerAlive == pc["worker"] \in {"create_pipe", "get", "txt2img", "upload", "post"}

\* C18 as stated: options.subprocess never changes; once pre_start ran, a
\* worker process exists exactly in offload mode; the ingestion context has
\* an engine exactly in inline mode; a request is put on the queue only in
\* offload mode and only while a worker is there to consume it; a request is
\* handled inline only with an engine.
C18_ModeFixedAndConsistent ==
    /\ [][/\ subprocess' = subprocess
          /\ Len(task_queue') > Len(task_queue) => (Offload /\ WorkerAlive)]_vars
    /\ [](/\ pc["main"] # "constructed" => (pc["worker"] # "none" <=> Offload)
          /\ pipe["main"] <=> ~Offload
          /\ pc["main"] = "put" => Offload
          /\ pc["main"] \in {"txt2img", "upload", "post"} => pipe["main"])

\* C19 as stated: the worker takes no request before it has built its
\* engine; while it builds it, requests only join the queue, which stays
\* within its capacity; requests are handed to txt2img in the order they
\* were put; and every request put on the queue while the engine was being
\* built is handed to txt2img afterwards.
C19_EngineBeforeFirstDequeue ==
    /\ [](/\ pc["worker"] \in {"get", "txt2img", "upload", "post"} => pipe["worker"]
          /\ \A id \in Ids : "worker" \in hist[id].ctxs => pipe["worker"]
          /\ Len(task_queue) <= maxsize
          /\ \A a \in Ids, b \in Ids :
                (hist[a].enqPos > 0 /\ hist[a].enqPos < hist[b].enqPos
                 /\ hist[b].genPos > 0)
                    => (hist[a].genPos > 0 /\ hist[a].genPos < hist[b].genPos))
    /\ [][pc["worker"] = "create_pipe" =>
             /\ Len(task_queue') >= Len(task_queue)
             /\ SubSeq(task_queue', 1, Len(task_queue)) = task_queue]_vars
    /\ \A b \in 1..MaxFairEvents :
          hist[b].loadingAtPut ~> (hist[b].genPos > 0 /\ pipe["worker"])

\* the composite image a direct caller got from four or more tiles
GridDone == harness.task # NoTask /\ harness.task.image # None

\* coordinates at and next to every border of the pastes and of the regions:
\* between two of them the pixel of the canvas and the pixel the claim names
\* are given by the same paste and the same tile
Probes(d) == {0, 1, d - 1, d, d + 1, (2 * d) - 1,
              TileSize - 1, TileSize, TileSize + 1, CanvasSize - 1}

\* C12 as stated: for tiles of side D the canvas has side 2D and pixel
\* (x, y) of the canvas is pixel (x mod D, y mod D) of the tile whose
\* region it lies in, the regions being at (0,0), (D,0), (0,D), (D,D) in
\* generation order.
C12_GridComposition ==
    GridDone =>
        LET canvas == harness.task.image[1]
            images == harness.images[1]
            d == harness.size
        IN  /\ canvas.size = 2 * d
            /\ \A x \in Probes(d), y \in Probes(d) :
                  (x < 2 * d /\ y < 2 * d) =>
                      Pixel(canvas, x, y) =
                          TilePixel(images[1 + (x \div d) + (2 * (y \div d))],
                                    x % d, y % d)

\* C12 amended: the canvas has side 1024 and the four tiles are pasted at
\* (0,0), (512,0), (0,512), (512,512) in generation order whatever their
\* size; for tiles of side 512 every pixel of the canvas is the
\* corresponding pixel of the one tile whose region it lies in.
C12_GridCompositionAt512 ==
    GridDone =>
        LET canvas == harness.task.image[1]
            images == harness.images[1]
        IN  /\ canvas.size = CanvasSize
            /\ Len(canvas.pastes) = FourImages
            /\ \A i \in 0..3 :
                  /\ canvas.pastes[i + 1].image = images[i + 1]
                  /\ canvas.pastes[i + 1].at = <<TileSize * (i % 2), TileSize * (i \div 2)>>
            /\ harness.size = TileSize =>
                  /\ canvas.size = 2 * harness.size
                  /\ \A x \in Probes(TileSize), y \in Probes(TileSize) :
                        (x < CanvasSize /\ y < CanvasSize) =>
                            Pixel(canvas, x, y) =
                                TilePixel(images[1 + (x \div TileSize)
                                                   + (2 * (y \div TileSize))],
                                          x % TileSize, y % TileSize)

C12_Witness ==
    /\ GridDone
    /\ harness.size = TileSize
    /\ Len(harness.images[1]) = FourImages
    /\ Pixel(harness.task.image[1], TileSize, TileSize - 1).index = 1

\* C13 as stated: the bodies posted for two deliveries of the same task
\* have the same prompt part, the trimmed prompt, and the same image
\* reference (and the same conversation and cost).
C13_IdempotentFormatting ==
    \A id \in Ids :
        \A i \in 1..Len(hist[id].sent), j \in 1..Len(hist[id].sent) :
            /\ hist[id].sent[i].body.prompt = strip(hist[id].ev.content)
            /\ hist[id].sent[i].body.prompt = hist[id].sent[j].body.prompt
            /\ hist[id].sent[i].body.image = hist[id].sent[j].body.image

\* C13 amended: the bodies posted for two deliveries of the same task have
\* the same prompt part, the trimmed prompt, the same cost, the rounded
\* elapse of the task, and go to the same conversation; each embeds the
\* reference its own upload of the task's image returned.
C13_IdempotentFormattingButReference ==
    \A id \in Ids :
        /\ Len(hist[id].sent) <= harness.deliveries
        /\ \A i \in 1..Len(hist[id].sent), j \in 1..Len(hist[id].sent) :
            /\ hist[id].sent[i].body.prompt = strip(hist[id].ev.content)
            /\ hist[id].sent[i].body.prompt = hist[id].sent[j].body.prompt
            /\ hist[id].sent[i].body.cost = round3(harness.task.elapse_seconds)
            /\ hist[id].sent[i].body.cost = hist[id].sent[j].body.cost
            /\ hist[id].sent[i].conv = hist[id].sent[j].conv
            /\ hist[id].sent[i].body.image # None
            /\ hist[id].sent[i].body.image[1].media = harness.task.image

\* the same task delivered twice, its prompt having blanks around it, the
\* two uploads having returned different references
C13_Witness ==
    /\ harness.deliveries = 2
    /\ \E id \in Ids :
          /\ Len(hist[id].sent) = 2
          /\ hist[id].ev.content # strip(hist[id].ev.content)
          /\ hist[id].sent[1].body.image # hist[id].sent[2].body.image
          /\ hist[id].postOut = "ok"

=============================================================================
